---- MODULE Spec2Model ----
(***************************************************************************)
(* Model of the grouped thermostat (the DataUpdateCoordinator variant of   *)
(* GroupedThermostat in src/_(working)grouped_thermostat.py, lines 235 on) *)
(* and of the reducers of src/utils.py.                                    *)
(*                                                                         *)
(* Representation.                                                         *)
(*  - A string attribute that Python reads as None is the string None.     *)
(*    It differs from PRESET_NONE, the preset whose name is "none".        *)
(*  - An optional temperature is a sequence of length at most one:         *)
(*    <<>> is Python's None and <<t>> is the float t.                      *)
(*  - A child temperature t stands for t/16 degree, so every model         *)
(*    temperature is a binary fraction and the float subtraction and       *)
(*    comparison of the code are exact on it.  The mean of up to           *)
(*    NumChildren values is kept as a numerator over the common            *)
(*    denominator Scale, so the composite current temperature c stands     *)
(*    for c/(16*Scale) degree.                                             *)
(*  - recomputed and last_read are history variables: they record that a   *)
(*    recompute has run and what the last handler read from hass.states,   *)
(*    and no handler reads them.                                           *)
(***************************************************************************)
EXTENDS Integers, Sequences, FiniteSets, TLC

\* Number of configured child thermostats (length of the `thermostats` list).
NumChildren == 2

\* self._thermostats: the configured children, in configuration order.
thermostats == [i \in 1..NumChildren |-> i]

Children == {thermostats[i] : i \in 1..NumChildren}

None == "None"

NoTemp == <<>>

\* hass.states.get(entity_id) returning None: the child is not resolvable.
NoState == [state |-> "NoState"]

\* The entity was not read by the handler (value of the history variable).
NotRead == [state |-> "NotRead"]

\* const.py
HVAC_MODES == <<"off", "heat">>
PRESET_MODES == <<"boost", "none">>

InList(x, l) == \E i \in 1..Len(l) : l[i] = x

\* TEMPERATURE_HYSTERESIS = 0.1, as the fraction HysteresisNum / HysteresisDen.
HysteresisNum == 1
HysteresisDen == 10

\* One model temperature unit is 1/TempUnit degree.
TempUnit == 16

RECURSIVE Factorial(_)
Factorial(n) == IF n <= 1 THEN 1 ELSE n * Factorial(n - 1)

\* Common denominator of the means of 1..NumChildren values.
Scale == Factorial(NumChildren)

Abs(x) == IF x < 0 THEN -x ELSE x

VARIABLES
    sub_values,           \* self._sub_values: child -> last snapshot
    current_temperature,  \* self._current_temperature (optional, scaled)
    target_temperature,   \* self._target_temperature (optional)
    hvac_mode,            \* self._hvac_mode
    preset_mode,          \* self._attr_preset_mode
    hvac_action,          \* self._hvac_action
    available,            \* self._available
    should_update,        \* should_update of the last _update_aggregate_state
    ha_state_written,     \* the last handler called async_write_ha_state
    pc,                   \* position of the command coroutine
    cmd,                  \* the command being (or last) executed
    idx,                  \* position of its `for thermostat in ...` loop
    service_log,          \* CommandSender events of that command, in order
    recomputed,           \* history: _update_aggregate_state has run
    last_read             \* history: what hass.states.get returned to the
                          \* last handler, per entity (SpecStore only)

vars == <<sub_values, current_temperature, target_temperature, hvac_mode,
          preset_mode, hvac_action, available, should_update,
          ha_state_written, pc, cmd, idx, service_log, recomputed, last_read>>

groupVars == <<current_temperature, target_temperature, hvac_mode,
               preset_mode, hvac_action, available, should_update>>

fanoutVars == <<pc, cmd, idx, service_log>>

\* {} of the dict comprehension in __init__: every v.get(...) is None.
EmptySnapshot ==
    [state |-> None, current_temperature |-> NoTemp, temperature |-> NoTemp,
     preset_mode |-> None, hvac_action |-> None]

\* The dict literal of _update_sub_value: the five values read from a state.
new_sub_value(state) ==
    [state |-> state.state,
     current_temperature |-> state.current_temperature,
     temperature |-> state.temperature,
     preset_mode |-> state.preset_mode,
     hvac_action |-> state.hvac_action]

\* Mutant: the dict is updated in place, a value the state lacks keeps the
\* one of the previous snapshot.
update_sub_value_merge(sv, entity_id, state) ==
    IF state = NoState
    THEN sv
    ELSE LET old == sv[entity_id]
             new == new_sub_value(state) IN
         [sv EXCEPT ![entity_id] =
            [state |-> new.state,
             current_temperature |->
                IF new.current_temperature = NoTemp THEN old.current_temperature
                ELSE new.current_temperature,
             temperature |->
                IF new.temperature = NoTemp THEN old.temperature ELSE new.temperature,
             preset_mode |->
                IF new.preset_mode = None THEN old.preset_mode ELSE new.preset_mode,
             hvac_action |->
                IF new.hvac_action = None THEN old.hvac_action ELSE new.hvac_action]]

\* _update_sub_value: a resolvable state replaces the snapshot wholesale with
\* the five values read from it; an unresolvable one leaves the store alone.
\* `self._sub_values[entity_id] = ...` is a dict assignment: it adds the key
\* when the dict does not have it.
update_sub_value(sv, entity_id, state) ==
    IF state = NoState
    THEN sv
    ELSE [k \in DOMAIN sv \cup {entity_id} |->
            IF k = entity_id THEN new_sub_value(state) ELSE sv[k]]

\* self._sub_values.values(): the snapshots in insertion order, which is the
\* order of `thermostats` (keys are never added after the constructor).
values(sv) == [i \in 1..NumChildren |-> sv[thermostats[i]]]

RECURSIVE SumSeq(_)
SumSeq(s) == IF s = <<>> THEN 0 ELSE Head(s) + SumSeq(Tail(s))

RECURSIVE MaxSeq(_)
MaxSeq(s) ==
    IF Len(s) = 1 THEN Head(s)
    ELSE LET m == MaxSeq(Tail(s)) IN IF Head(s) >= m THEN Head(s) ELSE m

\* utils.calculate_average_temperature: mean(temperatures) or None.
\* The mean is returned over the denominator Scale (Len divides Scale).
calculate_average_temperature(temperatures) ==
    IF temperatures = <<>> THEN NoTemp
    ELSE <<(SumSeq(temperatures) * Scale) \div Len(temperatures)>>

RECURSIVE MinSeq(_)
MinSeq(s) ==
    IF Len(s) = 1 THEN Head(s)
    ELSE LET m == MinSeq(Tail(s)) IN IF Head(s) <= m THEN Head(s) ELSE m

\* Mutant: the least child target instead of the greatest.
get_max_temperature_min(temperatures) ==
    IF temperatures = <<>> THEN NoTemp ELSE <<MinSeq(temperatures)>>

\* utils.get_max_temperature: max(temperatures) or None.
get_max_temperature(temperatures) ==
    IF temperatures = <<>> THEN NoTemp ELSE <<MaxSeq(temperatures)>>

Count(vals, x) == Cardinality({i \in 1..Len(vals) : vals[i] = x})

\* Mutant: among the values of highest count the last encountered wins.
get_most_common_value_last(vals) ==
    IF vals = <<>> THEN None
    ELSE LET counts == [i \in 1..Len(vals) |-> Count(vals, vals[i])]
             best == CHOOSE i \in 1..Len(vals) :
                 /\ \A j \in 1..Len(vals) : counts[j] <= counts[i]
                 /\ \A j \in (i + 1)..Len(vals) : counts[j] < counts[i]
         IN vals[best]

\* utils.get_most_common_value: Counter(values).most_common(1)[0][0] or None.
\* Counter keeps first-insertion order and most_common(1) is max() over it,
\* so among the values of highest count the first encountered wins.
get_most_common_value(vals) ==
    IF vals = <<>> THEN None
    ELSE LET counts == [i \in 1..Len(vals) |-> Count(vals, vals[i])]
             best == CHOOSE i \in 1..Len(vals) :
                 /\ \A j \in 1..Len(vals) : counts[j] <= counts[i]
                 /\ \A j \in 1..(i - 1) : counts[j] < counts[i]
         IN vals[best]

\* [v.get(key) for v in values if v.get(key) is not None], temperatures unwrapped.
PresentTemps(sv, key) ==
    LET present == SelectSeq(values(sv), LAMBDA v : v[key] # NoTemp)
    IN [i \in 1..Len(present) |-> present[i][key][1]]

current_temps(sv) == PresentTemps(sv, "current_temperature")

target_temps(sv) == PresentTemps(sv, "temperature")

\* Mutant: the filter of the first class of the file (`is not None`), which
\* lets every reported state into the vote.
hvac_modes_unfiltered(sv) ==
    LET kept == SelectSeq(values(sv), LAMBDA v : v.state # None)
    IN [i \in 1..Len(kept) |-> kept[i].state]

\* [v.get("state") for v in values if v.get("state") in HVAC_MODES]
hvac_modes(sv) ==
    LET kept == SelectSeq(values(sv), LAMBDA v : InList(v.state, HVAC_MODES))
    IN [i \in 1..Len(kept) |-> kept[i].state]

\* [v.get("preset_mode") for v in values if v.get("preset_mode") in PRESET_MODES]
preset_modes(sv) ==
    LET kept == SelectSeq(values(sv), LAMBDA v : InList(v.preset_mode, PRESET_MODES))
    IN [i \in 1..Len(kept) |-> kept[i].preset_mode]

\* [v.get("hvac_action") for v in values if v.get("hvac_action") is not None]
hvac_actions(sv) ==
    LET kept == SelectSeq(values(sv), LAMBDA v : v.hvac_action # None)
    IN [i \in 1..Len(kept) |-> kept[i].hvac_action]

\* Mutant: an absent mean is stored like any other new value.
current_temp_significant_reset(new, old) ==
    \/ new = NoTemp
    \/ old = NoTemp
    \/ HysteresisDen * Abs(new[1] - old[1]) >= HysteresisNum * TempUnit * Scale

\* Mutant: the guard of the discrete fields applied to the temperature.
current_temp_significant_any_change(new, old) == new # old

\* Mutant: the threshold is twice the hysteresis.
current_temp_significant_wide(new, old) ==
    /\ new # NoTemp
    /\ \/ old = NoTemp
       \/ HysteresisDen * Abs(new[1] - old[1]) >= 2 * HysteresisNum * TempUnit * Scale

\* Mutant: the difference compared without abs().
current_temp_significant_signed(new, old) ==
    /\ new # NoTemp
    /\ \/ old = NoTemp
       \/ HysteresisDen * (new[1] - old[1]) >= HysteresisNum * TempUnit * Scale

\* new_current_temp is not None and (self._current_temperature is None
\*   or abs(new_current_temp - self._current_temperature) >= TEMPERATURE_HYSTERESIS)
\* Both temperatures are numerators over TempUnit * Scale.
current_temp_significant(new, old) ==
    /\ new # NoTemp
    /\ \/ old = NoTemp
       \/ HysteresisDen * Abs(new[1] - old[1]) >= HysteresisNum * TempUnit * Scale

\* Mutant: the comparison left out, every recompute stores and flags the field.
discrete_changed_always(new, old) == TRUE

\* if new != self._field: the guard of the four discrete fields.
discrete_changed(new, old) == new # old

\* Mutant: all() instead of any().
any_available_all(sv) == \A i \in 1..NumChildren : values(sv)[i].state # "unavailable"

\* any(v.get("state") != "unavailable" for v in self._sub_values.values())
any_available(sv) == \E i \in 1..NumChildren : values(sv)[i].state # "unavailable"

\* Mutant: the hvac_action branch updates the field and forgets the flag.
should_update_of_no_action(f1, f2, f3, f4, f5) == f1 \/ f2 \/ f3 \/ f4

\* should_update: False at the start of a recompute, set True in the branch
\* of each of the five fields that is updated.
should_update_of(f1, f2, f3, f4, f5) == f1 \/ f2 \/ f3 \/ f4 \/ f5

\* _update_aggregate_state: the group fields and should_update after a
\* recompute over the store sv, g being the group fields before it.
update_aggregate_state(sv, g) ==
    LET new_current_temp == calculate_average_temperature(current_temps(sv))
        new_target_temp == get_max_temperature(target_temps(sv))
        new_hvac_mode == get_most_common_value(hvac_modes(sv))
        new_preset_mode == get_most_common_value(preset_modes(sv))
        new_hvac_action == get_most_common_value(hvac_actions(sv))
        f1 == current_temp_significant(new_current_temp, g.current_temperature)
        f2 == discrete_changed(new_target_temp, g.target_temperature)
        f3 == discrete_changed(new_hvac_mode, g.hvac_mode)
        f4 == discrete_changed(new_preset_mode, g.preset_mode)
        f5 == discrete_changed(new_hvac_action, g.hvac_action)
    IN [current_temperature |-> IF f1 THEN new_current_temp ELSE g.current_temperature,
        target_temperature |-> IF f2 THEN new_target_temp ELSE g.target_temperature,
        hvac_mode |-> IF f3 THEN new_hvac_mode ELSE g.hvac_mode,
        preset_mode |-> IF f4 THEN new_preset_mode ELSE g.preset_mode,
        hvac_action |-> IF f5 THEN new_hvac_action ELSE g.hvac_action,
        available |-> any_available(sv),
        should_update |-> should_update_of(f1, f2, f3, f4, f5)]

\* The group fields as a record.
Group ==
    [current_temperature |-> current_temperature,
     target_temperature |-> target_temperature,
     hvac_mode |-> hvac_mode,
     preset_mode |-> preset_mode,
     hvac_action |-> hvac_action,
     available |-> available,
     should_update |-> should_update]

SetGroup(g) ==
    /\ current_temperature' = g.current_temperature
    /\ target_temperature' = g.target_temperature
    /\ hvac_mode' = g.hvac_mode
    /\ preset_mode' = g.preset_mode
    /\ hvac_action' = g.hvac_action
    /\ available' = g.available
    /\ should_update' = g.should_update

\* Mutant: a constructor that leaves every derived field none and the group
\* unavailable.
Init_unavailable ==
    /\ sub_values = [t \in Children |-> EmptySnapshot]
    /\ current_temperature = NoTemp
    /\ target_temperature = NoTemp
    /\ hvac_mode = None
    /\ preset_mode = None
    /\ hvac_action = None
    /\ available = FALSE
    /\ should_update = FALSE
    /\ ha_state_written = FALSE
    /\ pc = "idle"
    /\ cmd = [service |-> None, value |-> None]
    /\ idx = 0
    /\ service_log = <<>>
    /\ recomputed = FALSE
    /\ last_read = [t \in Children |-> NotRead]

\* GroupedThermostat.__init__
Init ==
    /\ sub_values = [t \in Children |-> EmptySnapshot]
    /\ current_temperature = NoTemp
    /\ target_temperature = NoTemp
    /\ hvac_mode = "heat"
    /\ preset_mode = PRESET_MODES[2]
    /\ hvac_action = None
    /\ available = TRUE
    /\ should_update = FALSE
    /\ ha_state_written = FALSE
    /\ pc = "idle"
    /\ cmd = [service |-> None, value |-> None]
    /\ idx = 0
    /\ service_log = <<>>
    /\ recomputed = FALSE
    /\ last_read = [t \in Children |-> NotRead]

\* async_state_changed_listener(event): the state read is what
\* hass.states.get(event.data["entity_id"]) returns when the callback runs.
async_state_changed_listener(entity_id, state) ==
    /\ LET sv == update_sub_value(sub_values, entity_id, state)
           g == update_aggregate_state(sv, Group)
       IN sub_values' = sv /\ SetGroup(g)
    /\ ha_state_written' = TRUE
    /\ recomputed' = TRUE
    /\ UNCHANGED fanoutVars

\* Mutant: the loop ends at the first child that has no state.
RECURSIVE PollAll_abort(_, _, _)
PollAll_abort(sv, poll, i) ==
    IF i > NumChildren \/ poll[thermostats[i]] = NoState THEN sv
    ELSE PollAll_abort(update_sub_value(sv, thermostats[i], poll[thermostats[i]]), poll, i + 1)

\* `for entity_id in self._thermostats: state = hass.states.get(entity_id);
\* if state: self._update_sub_value(entity_id, state)`.
RECURSIVE PollAll(_, _, _)
PollAll(sv, poll, i) ==
    IF i > NumChildren THEN sv
    ELSE PollAll(update_sub_value(sv, thermostats[i], poll[thermostats[i]]), poll, i + 1)

\* Mutant: the recompute runs when only the first child has been polled, as
\* it would if another trigger's recompute ran in the middle of the loop.
async_update_data_partial(poll) ==
    /\ LET sv == PollAll(sub_values, poll, 1)
           part == update_sub_value(sub_values, thermostats[1], poll[thermostats[1]])
           g == update_aggregate_state(part, Group)
       IN sub_values' = sv /\ SetGroup(g)
    /\ ha_state_written' = FALSE
    /\ recomputed' = TRUE
    /\ UNCHANGED fanoutVars

\* _async_update_data: poll[c] is what hass.states.get(c) returns; the loop
\* has no suspension point, so the whole refresh is one step.
async_update_data(poll) ==
    /\ LET sv == PollAll(sub_values, poll, 1)
           g == update_aggregate_state(sv, Group)
       IN sub_values' = sv /\ SetGroup(g)
    /\ ha_state_written' = FALSE
    /\ recomputed' = TRUE
    /\ UNCHANGED fanoutVars

storeVars == <<sub_values, current_temperature, target_temperature, hvac_mode,
               preset_mode, hvac_action, available, should_update,
               ha_state_written, recomputed, last_read>>

\* One CommandSender event: the call hass.services.async_call("climate",
\* service, {"entity_id": entity, ...: value}, blocking=True) being issued
\* ("call"), and its await returning ("done") or raising ("error").
Event(ev, i) ==
    [ev |-> ev, service |-> cmd'.service, entity |-> thermostats[i], value |-> cmd'.value]

\* `for thermostat in self._thermostats: await async_call(...)` entered: the
\* call to the first child is issued before the coroutine first suspends.
begin_fanout ==
    /\ pc' = "awaiting"
    /\ idx' = 1
    /\ service_log' = <<Event("call", 1)>>

\* The guard of a command was false: the method falls through and returns.
skip_fanout ==
    /\ pc' = "returned"
    /\ idx' = 0
    /\ service_log' = <<>>

\* async_set_temperature(temperature=...): `if temperature is not None`.
temperature_accepted(temperature) == temperature # NoTemp

async_set_temperature(temperature) ==
    /\ pc # "awaiting"
    /\ cmd' = [service |-> "set_temperature", value |-> temperature]
    /\ IF temperature_accepted(temperature) THEN begin_fanout ELSE skip_fanout
    /\ UNCHANGED storeVars

\* Mutant: the membership test left out.
hvac_mode_accepted_any(mode) == TRUE

\* async_set_hvac_mode: `if hvac_mode in self.hvac_modes` (_attr_hvac_modes).
hvac_mode_accepted(mode) == InList(mode, HVAC_MODES)

\* Mutant: an accepted mode is also stored in the group (optimistic update).
async_set_hvac_mode_optimistic(mode) ==
    /\ pc # "awaiting"
    /\ cmd' = [service |-> "set_hvac_mode", value |-> mode]
    /\ IF hvac_mode_accepted(mode)
       THEN begin_fanout /\ hvac_mode' = mode
       ELSE skip_fanout /\ hvac_mode' = hvac_mode
    /\ UNCHANGED <<sub_values, current_temperature, target_temperature,
                   preset_mode, hvac_action, available, should_update,
                   ha_state_written, recomputed, last_read>>

async_set_hvac_mode(mode) ==
    /\ pc # "awaiting"
    /\ cmd' = [service |-> "set_hvac_mode", value |-> mode]
    /\ IF hvac_mode_accepted(mode) THEN begin_fanout ELSE skip_fanout
    /\ UNCHANGED storeVars

\* async_set_preset_mode: `if preset_mode in self.preset_modes` (_attr_preset_modes).
preset_mode_accepted(preset) == InList(preset, PRESET_MODES)

async_set_preset_mode(preset) ==
    /\ pc # "awaiting"
    /\ cmd' = [service |-> "set_preset_mode", value |-> preset]
    /\ IF preset_mode_accepted(preset) THEN begin_fanout ELSE skip_fanout
    /\ UNCHANGED storeVars

\* The loop after the awaited call to child idx returned: the next child is
\* called, or the loop is exhausted and the method returns.
next_after_success(i) == i + 1

async_call_done ==
    /\ pc = "awaiting"
    /\ cmd' = cmd
    /\ LET n == next_after_success(idx) IN
       IF n <= NumChildren
       THEN /\ pc' = "awaiting"
            /\ idx' = n
            /\ service_log' = service_log \o <<Event("done", idx), Event("call", n)>>
       ELSE /\ pc' = "returned"
            /\ idx' = idx
            /\ service_log' = Append(service_log, Event("done", idx))
    /\ UNCHANGED storeVars

\* Mutant: the exception is swallowed and the loop goes on to the next child.
after_failure_continue(i) ==
    IF i < NumChildren THEN [pc |-> "awaiting", idx |-> i + 1]
    ELSE [pc |-> "raised", idx |-> i]

\* The awaited call to child idx raised: nothing catches it, the exception
\* leaves the loop and the method.
after_failure(i) == [pc |-> "raised", idx |-> i]

async_call_error ==
    /\ pc = "awaiting"
    /\ cmd' = cmd
    /\ pc' = after_failure(idx).pc
    /\ idx' = after_failure(idx).idx
    /\ service_log' =
          IF pc' = "awaiting"
          THEN service_log \o <<Event("error", idx), Event("call", idx')>>
          ELSE Append(service_log, Event("error", idx))
    /\ UNCHANGED storeVars

\* Observations: the raw child states hass.states.get can return.
Obs(S, C, T, P, A) ==
    [state : S, current_temperature : C, temperature : T, preset_mode : P,
     hvac_action : A]

\* Mutant: the subscription also covers an entity that is not a child.
tracked_entities_wide == Children \cup {NumChildren + 1}

\* async_track_state_change_event(self.hass, self._thermostats, listener):
\* the listener is called for the configured children only.
tracked_entities == Children

\* The history variable last_read is written by SpecStore alone; in the other
\* specifications the handlers leave it as constructed.
NextOver(obs, polls, temps, modes, presets) ==
    \/ \E c \in tracked_entities, s \in obs \cup {NoState} :
          async_state_changed_listener(c, s) /\ UNCHANGED last_read
    \/ \E poll \in [Children -> polls \cup {NoState}] :
          async_update_data(poll) /\ UNCHANGED last_read
    \/ \E t \in temps : async_set_temperature(t)
    \/ \E m \in modes : async_set_hvac_mode(m)
    \/ \E p \in presets : async_set_preset_mode(p)
    \/ async_call_done
    \/ async_call_error

\* The aggregation side alone: the two handlers that write the store and the
\* group.  The commands leave both untouched (UNCHANGED storeVars), so the
\* specifications about aggregation spend their states on observations.
NextAggregate(obs, polls) ==
    \/ \E c \in tracked_entities, s \in obs \cup {NoState} :
          async_state_changed_listener(c, s) /\ UNCHANGED last_read
    \/ \E poll \in [Children -> polls \cup {NoState}] :
          async_update_data(poll) /\ UNCHANGED last_read

\* Spec: every handler; few observations, commands of every kind with
\* accepted, rejected and absent values.
SpecObs == Obs({"heat", "unavailable"}, {NoTemp, <<320>>}, {NoTemp}, {None}, {None})

SpecPolls == Obs({"heat"}, {<<322>>}, {NoTemp}, {None}, {None})

Next ==
    NextOver(SpecObs, SpecPolls, {NoTemp, <<336>>}, {"heat", "off", "cool"},
             {"boost", "none", "eco"})

Spec == Init /\ [][Next]_vars

\* SpecTemp: current and target temperatures one or two sixteenths apart, so
\* that means of two children differ by less and by more than 0.1 degree.
TempObs == Obs({"heat"}, {NoTemp, <<320>>, <<322>>}, {NoTemp, <<320>>, <<336>>}, {None}, {None})

TempPolls == Obs({"heat"}, {<<322>>}, {<<336>>}, {None}, {None})

NextTemp == NextAggregate(TempObs, TempPolls)

SpecTemp == Init /\ [][NextTemp]_vars

\* SpecModes: states and presets inside and outside the allowed sets.
ModesObs ==
    Obs({"heat", "off", "auto", "unavailable"}, {NoTemp}, {NoTemp},
        {None, "boost", "eco"}, {None})

ModesPolls == Obs({"off", "unavailable"}, {NoTemp}, {NoTemp}, {"boost"}, {None})

NextModes == NextAggregate(ModesObs, ModesPolls)

SpecModes == Init /\ [][NextModes]_vars

\* SpecDiscrete: the four discrete fields varying independently of each other.
DiscreteObs ==
    Obs({"heat", "off"}, {NoTemp}, {NoTemp, <<336>>}, {None, "boost"}, {None, "heating"})

DiscretePolls == Obs({"off"}, {NoTemp}, {<<336>>}, {None}, {"heating"})

NextDiscrete == NextAggregate(DiscreteObs, DiscretePolls)

SpecDiscrete == Init /\ [][NextDiscrete]_vars

\* SpecUnavail: children that go unavailable with or without their attributes.
Attributes ==
    {[current_temperature |-> <<320>>, temperature |-> <<336>>,
      preset_mode |-> "boost", hvac_action |-> "heating"],
     [current_temperature |-> <<322>>, temperature |-> <<320>>,
      preset_mode |-> "none", hvac_action |-> "idle"],
     [current_temperature |-> NoTemp, temperature |-> NoTemp,
      preset_mode |-> None, hvac_action |-> None]}

WithState(st, a) ==
    [state |-> st, current_temperature |-> a.current_temperature,
     temperature |-> a.temperature, preset_mode |-> a.preset_mode,
     hvac_action |-> a.hvac_action]

UnavailObs == {WithState(st, a) : st \in {"heat", "off", "unavailable"}, a \in Attributes}

UnavailPolls == {o \in UnavailObs : o.state = "unavailable"}

NextUnavail == NextAggregate(UnavailObs, UnavailPolls)

SpecUnavail == Init /\ [][NextUnavail]_vars

\* SpecStore: the two handlers with the history variable last_read, which
\* records per entity what the handler read: snapshots that carry every
\* attribute, none, or some.
StoreObs ==
    {o \in UnavailObs : o.state = "heat"} \cup
    {[state |-> "heat", current_temperature |-> NoTemp, temperature |-> <<336>>,
      preset_mode |-> None, hvac_action |-> "heating"]}

StorePolls == {o \in UnavailObs : o.state = "off" /\ o.preset_mode = "boost"}

NextStore ==
    \/ \E c \in tracked_entities, s \in StoreObs \cup {NoState} :
          /\ async_state_changed_listener(c, s)
          /\ last_read' = [t \in Children |-> IF t = c THEN s ELSE NotRead]
    \/ \E poll \in [Children -> StorePolls \cup {NoState}] :
          /\ async_update_data(poll)
          /\ last_read' = poll

SpecStore == Init /\ [][NextStore]_vars

(***************************************************************************)
(* Properties                                                              *)
(***************************************************************************)

AllUnavailable(sv) == \A c \in Children : sv[c].state = "unavailable"

DiscreteFieldChanges ==
    \/ target_temperature' # target_temperature
    \/ hvac_mode' # hvac_mode
    \/ preset_mode' # preset_mode
    \/ hvac_action' # hvac_action

\* C1: after every recompute the group is available if and only if at least
\* one child's last-known state is not "unavailable" (a child never observed
\* has no state and counts as not unavailable).
C1_AvailableIffSomeChildNotUnavailable ==
    available <=> \E c \in Children : sub_values[c].state # "unavailable"

C1_Witness ==
    /\ available
    /\ \E c \in Children : sub_values[c].state = "unavailable"
    /\ \E c \in Children : sub_values[c].state = "heat"

\* C2: the composite target temperature is at least every child's last-known
\* target temperature and is the target of one of the children; it is absent
\* exactly when no child has a target.
C2_TargetIsMaxOfChildren ==
    /\ \A c \in Children :
          sub_values[c].temperature # NoTemp =>
             /\ target_temperature # NoTemp
             /\ target_temperature[1] >= sub_values[c].temperature[1]
    /\ target_temperature # NoTemp =>
          \E c \in Children : sub_values[c].temperature = target_temperature

C2_Witness ==
    /\ target_temperature = <<336>>
    /\ \E c \in Children : sub_values[c].temperature = <<320>>
    /\ \E c \in Children : sub_values[c].temperature = <<336>>

\* C3: a set_hvac_mode or set_preset_mode command whose value is outside the
\* allowed set returns without a single service call having been issued.
C3_RejectedContactsNoChild ==
    (\/ cmd.service = "set_hvac_mode" /\ cmd.value \notin {"off", "heat"}
     \/ cmd.service = "set_preset_mode" /\ cmd.value \notin {"boost", "none"})
    => (service_log = <<>> /\ pc = "returned")

C3_Witness ==
    /\ cmd.service = "set_preset_mode"
    /\ cmd.value = "eco"
    /\ pc = "returned"
    /\ service_log = <<>>

\* C4: the service calls of a broadcast go to the children one at a time in
\* configuration order, each call issued only after the previous one returned,
\* and a call that raises is the last event of the broadcast: the children
\* after it are never called.
C4_SequentialPrefix ==
    /\ Len(service_log) <= 2 * NumChildren
    /\ (pc = "awaiting") <=> (Len(service_log) % 2 = 1)
    /\ \A j \in 1..Len(service_log) :
          LET e == service_log[j] IN
          /\ e.entity = thermostats[(j + 1) \div 2]
          /\ e.service = cmd.service
          /\ (j % 2 = 1) => e.ev = "call"
          /\ (j % 2 = 0) => e.ev \in {"done", "error"}
          /\ e.ev = "error" => (j = Len(service_log) /\ pc = "raised")

C4_Witness ==
    /\ pc = "raised"
    /\ Len(service_log) < 2 * NumChildren
    /\ service_log[Len(service_log)].ev = "error"

\* C5: when a previous composite current temperature exists, a new mean less
\* than 0.1 degree away from it keeps the stored value and does not by itself
\* set should_update, a new mean 0.1 degree or more away is stored and sets
\* should_update; the first mean ever computed is stored and sets it.
C5_Step ==
    LET avg == calculate_average_temperature(current_temps(sub_values')) IN
    /\ (current_temperature = NoTemp /\ avg # NoTemp) =>
          (current_temperature' = avg /\ should_update')
    /\ (current_temperature # NoTemp /\ avg # NoTemp) =>
          IF 10 * Abs(avg[1] - current_temperature[1]) < TempUnit * Scale
          THEN /\ current_temperature' = current_temperature
               /\ should_update' => DiscreteFieldChanges
          ELSE /\ current_temperature' = avg
               /\ should_update'

C5_Hysteresis == [][C5_Step]_vars

C5_Witness ==
    LET avg == calculate_average_temperature(current_temps(sub_values)) IN
    /\ ~should_update
    /\ current_temperature # NoTemp
    /\ avg # NoTemp
    /\ avg # current_temperature

\* The discrete fields hold values computed from the store: the state is one
\* a recompute has left, not the constructor's.
Recomputed ==
    /\ target_temperature = get_max_temperature(target_temps(sub_values))
    /\ hvac_mode = get_most_common_value(hvac_modes(sub_values))
    /\ preset_mode = get_most_common_value(preset_modes(sub_values))
    /\ hvac_action = get_most_common_value(hvac_actions(sub_values))

\* C6 as stated: once the fields have been computed, a recompute over a store
\* in which every child is "unavailable" yields available = false and leaves
\* the five derived fields at their previous values.
C6_Original ==
    [][(Recomputed /\ AllUnavailable(sub_values')) =>
          /\ ~available'
          /\ current_temperature' = current_temperature
          /\ target_temperature' = target_temperature
          /\ hvac_mode' = hvac_mode
          /\ preset_mode' = preset_mode
          /\ hvac_action' = hvac_action]_vars

\* C6 as amended: a recompute over a store in which every child is
\* "unavailable" yields available = false and hvac mode none; the current
\* temperature is never reset to none and keeps its last value when no
\* snapshot carries one; target temperature, preset and action are none when
\* no snapshot carries a target, an allowed preset or an action.
C6_Step ==
    AllUnavailable(sub_values') =>
       /\ ~available'
       /\ hvac_mode' = None
       /\ current_temperature # NoTemp => current_temperature' # NoTemp
       /\ (\A c \in Children : sub_values'[c].current_temperature = NoTemp) =>
             current_temperature' = current_temperature
       /\ (\A c \in Children : sub_values'[c].temperature = NoTemp) =>
             target_temperature' = NoTemp
       /\ (\A c \in Children : sub_values'[c].preset_mode \notin {"boost", "none"}) =>
             preset_mode' = None
       /\ (\A c \in Children : sub_values'[c].hvac_action = None) =>
             hvac_action' = None

C6_AllUnavailable == [][C6_Step]_vars

C6_Witness ==
    /\ AllUnavailable(sub_values)
    /\ \A c \in Children : sub_values[c].current_temperature = NoTemp
    /\ ~available
    /\ hvac_mode = None
    /\ current_temperature # NoTemp
    /\ target_temperature = NoTemp

\* C7: once a recompute has run the four discrete fields hold the values
\* computed from the store, and a recompute in which any of them changes (to
\* or from none included) sets should_update.
C7_DiscreteChangeIsSignificant ==
    /\ [](Init \/ Recomputed)
    /\ [][DiscreteFieldChanges => should_update']_vars

C7_Witness ==
    /\ should_update
    /\ current_temperature = NoTemp
    /\ hvac_mode = "off"
    /\ hvac_action = None
    /\ \E c \in Children : sub_values[c].state = "heat"

\* C8 as stated: a recompute that changes `available` sets should_update.
C8_Original == [][(available' # available) => should_update']_vars

\* C9 as stated: the group state is written out by a notification handler
\* only when its recompute reported a change.
C9_Original == ha_state_written => should_update

\* C10: the composite hvac mode is none or an allowed hvac mode and the
\* composite preset is none or an allowed preset, whatever the children report.
C10_CompositeInAllowedSets ==
    /\ hvac_mode \in {None, "off", "heat"}
    /\ preset_mode \in {None, "boost", "none"}

C10_Witness ==
    /\ \E c \in Children : sub_values[c].state = "auto" /\ sub_values[c].preset_mode = "eco"
    /\ hvac_mode = "heat"
    /\ preset_mode = "boost"

\* C11: in every reachable state the key set of the child store is the set
\* of configured children: every child has an entry from construction on and
\* no notification, refresh or command adds or removes a key.
C11_StoreKeysAreChildren == DOMAIN sub_values = Children

C11_Witness ==
    /\ DOMAIN sub_values = Children
    /\ recomputed
    /\ ha_state_written
    /\ pc = "returned"
    /\ \E c \in Children : sub_values[c] # EmptySnapshot
    /\ \E c \in Children : sub_values[c] = EmptySnapshot

\* A handler read entity c and found a state / found none.
ReadPresent(c) == last_read[c] # NotRead /\ last_read[c] # NoState

ReadAbsent(c) == last_read[c] = NoState

\* C12: a handler that finds no state for a child leaves that child's
\* snapshot as it was, and the whole store when it read no other child; in a
\* refresh the children that do have a state are still updated from it, and
\* the recompute still runs over the resulting store.
C12_Step ==
    (\E c \in Children : ReadAbsent(c)') =>
       /\ \A c \in Children : ReadAbsent(c)' => sub_values'[c] = sub_values[c]
       /\ (\A c \in Children : ~ReadPresent(c)') => sub_values' = sub_values
       /\ \A c \in Children :
             ReadPresent(c)' => sub_values'[c] = new_sub_value(last_read'[c])
       /\ recomputed'
       /\ Recomputed'
       /\ available' = (\E c \in Children : sub_values'[c].state # "unavailable")

C12_AbsentObservation == [][C12_Step]_vars

C12_Witness ==
    /\ ~ha_state_written
    /\ ReadAbsent(thermostats[1])
    /\ ReadPresent(thermostats[NumChildren])
    /\ sub_values[thermostats[1]] # EmptySnapshot
    /\ sub_values[thermostats[1]].state = "heat"
    /\ sub_values[thermostats[NumChildren]].state = "off"
    /\ hvac_mode = "heat"

\* C13 as stated: a set_hvac_mode or set_preset_mode command whose value is
\* outside the allowed set ends with an error the caller can tell from the
\* normal return of an accepted command: the method does not return normally.
C13_Original ==
    (\/ cmd.service = "set_hvac_mode" /\ ~hvac_mode_accepted(cmd.value)
     \/ cmd.service = "set_preset_mode" /\ ~preset_mode_accepted(cmd.value))
    => pc # "returned"

\* C14 as stated: before the first recompute every derived field reads as
\* none (for the preset, none or the preset named "none") and the group
\* reads as unavailable.
C14_Original ==
    ~recomputed =>
       /\ current_temperature = NoTemp
       /\ target_temperature = NoTemp
       /\ hvac_mode = None
       /\ preset_mode \in {None, "none"}
       /\ hvac_action = None
       /\ ~available

\* C14 as amended: before the first recompute, commands included, the current
\* temperature, the target temperature and the action read as none, the hvac
\* mode reads "heat", the preset reads "none" (PRESET_NONE) and the group
\* reads as available.
C14_ConstructorDefaults ==
    ~recomputed =>
       /\ current_temperature = NoTemp
       /\ target_temperature = NoTemp
       /\ hvac_action = None
       /\ hvac_mode = "heat"
       /\ preset_mode = "none"
       /\ available

C14_Witness ==
    /\ ~recomputed
    /\ pc = "returned"
    /\ Len(service_log) = 2 * NumChildren
    /\ hvac_mode = "heat"
    /\ available

\* A step of a command: the command starts (accepted or rejected), or one of
\* its awaited calls returns or raises.
CommandStep ==
    \/ pc' # pc
    \/ idx' # idx
    \/ Len(service_log') # Len(service_log)
    \/ cmd'.service # cmd.service
    \/ cmd'.service = cmd.service /\ cmd'.value # cmd.value

\* C15: no step of a command broadcast, whether the command is accepted,
\* rejected, completes or fails part-way, changes the child store or a field
\* of the group: no recompute is forced and nothing is written out.
C15_Step ==
    CommandStep =>
       /\ sub_values' = sub_values
       /\ current_temperature' = current_temperature
       /\ target_temperature' = target_temperature
       /\ hvac_mode' = hvac_mode
       /\ preset_mode' = preset_mode
       /\ hvac_action' = hvac_action
       /\ available' = available
       /\ should_update' = should_update
       /\ ha_state_written' = ha_state_written
       /\ recomputed' = recomputed

C15_BroadcastLeavesState == [][C15_Step]_vars

C15_Witness ==
    /\ cmd.service = "set_hvac_mode"
    /\ cmd.value = "off"
    /\ pc = "raised"
    /\ idx = NumChildren
    /\ recomputed
    /\ hvac_mode = "heat"
    /\ \A c \in Children : sub_values[c].state = "heat"

\* Positions, in configuration order, of the children whose state is v.
Voters(v) == {i \in 1..NumChildren : sub_values[thermostats[i]].state = v}

FirstVoter(v) == CHOOSE i \in Voters(v) : \A j \in Voters(v) : i <= j

AllowedModes == {HVAC_MODES[i] : i \in 1..Len(HVAC_MODES)}

\* C16: after a recompute the composite hvac mode is an allowed mode that no
\* other allowed mode outvotes, and among the modes tied for most frequent it
\* is the one whose first voter comes first in the configured order of the
\* children, whatever the order in which the observations arrived; it is none
\* when no child reports an allowed mode.
C16_TieGoesToFirstConfigured ==
    recomputed =>
       IF \A v \in AllowedModes : Voters(v) = {}
       THEN hvac_mode = None
       ELSE /\ hvac_mode \in AllowedModes
            /\ Voters(hvac_mode) # {}
            /\ \A w \in AllowedModes \ {hvac_mode} :
                  \/ Cardinality(Voters(w)) < Cardinality(Voters(hvac_mode))
                  \/ /\ Cardinality(Voters(w)) = Cardinality(Voters(hvac_mode))
                     /\ FirstVoter(hvac_mode) < FirstVoter(w)

C16_Witness ==
    /\ recomputed
    /\ sub_values[thermostats[1]].state = "heat"
    /\ sub_values[thermostats[NumChildren]].state = "off"
    /\ Cardinality(Voters("heat")) = Cardinality(Voters("off"))
    /\ hvac_mode = "heat"

\* C17: a notification's update+recompute and a refresh's poll+recompute are
\* single steps, so in every reachable state (a command suspended between two
\* awaited calls included) the group is the result of a recompute over the
\* whole current store: availability and the four discrete fields are those
\* computed from it, and a current temperature is held whenever a child has one.
C17_RecomputeSeesWholeStore ==
    recomputed =>
       /\ Recomputed
       /\ available <=> \E c \in Children : sub_values[c].state # "unavailable"
       /\ (\E c \in Children : sub_values[c].current_temperature # NoTemp) =>
             current_temperature # NoTemp

C17_Witness ==
    /\ pc = "awaiting"
    /\ idx = NumChildren
    /\ recomputed
    /\ ~ha_state_written
    /\ sub_values[thermostats[1]].state = "unavailable"
    /\ sub_values[thermostats[NumChildren]].state = "heat"
    /\ sub_values[thermostats[NumChildren]].current_temperature = <<322>>
    /\ hvac_mode = "heat"
    /\ current_temperature # NoTemp

\* C19: after a handler has read a state for child c, each of the five fields
\* of c's snapshot equals the field of that state, a field the state lacks
\* being absent in the snapshot whatever it was before, and the snapshot of
\* every child the handler did not read is unchanged.
C19_Step ==
    \A c \in Children :
       /\ ReadPresent(c)' =>
             /\ sub_values'[c].state = last_read'[c].state
             /\ sub_values'[c].current_temperature = last_read'[c].current_temperature
             /\ sub_values'[c].temperature = last_read'[c].temperature
             /\ sub_values'[c].preset_mode = last_read'[c].preset_mode
             /\ sub_values'[c].hvac_action = last_read'[c].hvac_action
       /\ last_read'[c] = NotRead => sub_values'[c] = sub_values[c]

C19_WholesaleReplacement == [][C19_Step]_vars

C19_Witness ==
    /\ ha_state_written
    /\ \E c \in Children :
          /\ ReadPresent(c)
          /\ last_read[c].current_temperature = NoTemp
          /\ last_read[c].preset_mode = None
          /\ sub_values[c].current_temperature = NoTemp
          /\ sub_values[c].preset_mode = None
    /\ \A c \in Children : sub_values[c].current_temperature = NoTemp
    /\ current_temperature # NoTemp
    /\ \E d \in Children : last_read[d] = NotRead /\ sub_values[d] # EmptySnapshot

\* The children whose snapshot carries a current temperature, and the sum of
\* those temperatures (in units of 1/TempUnit degree).
WithCurrentTemp == {c \in Children : sub_values[c].current_temperature # NoTemp}

RECURSIVE SumCurrentTemp(_)
SumCurrentTemp(S) ==
    IF S = {} THEN 0
    ELSE LET c == CHOOSE x \in S : TRUE
         IN sub_values[c].current_temperature[1] + SumCurrentTemp(S \ {c})

\* C20: whenever at least one child has a current temperature, the composite
\* current temperature is present and less than 0.1 degree away from the exact
\* average of the children's present current temperatures, after any sequence
\* of updates: |cur/(TempUnit*Scale) - sum/(n*TempUnit)| < 1/10.
C20_WithinHysteresisOfAverage ==
    LET n == Cardinality(WithCurrentTemp)
        sum == SumCurrentTemp(WithCurrentTemp) IN
    n > 0 =>
       /\ current_temperature # NoTemp
       /\ HysteresisDen * Abs(current_temperature[1] * n - sum * Scale)
             < HysteresisNum * TempUnit * Scale * n

C20_Witness ==
    /\ should_update
    /\ target_temperature = <<336>>
    /\ Cardinality(WithCurrentTemp) = NumChildren
    /\ current_temperature # NoTemp
    /\ current_temperature[1] * NumChildren # SumCurrentTemp(WithCurrentTemp) * Scale

\* C21: a recompute that follows another recompute with no store update in
\* between (the handler read no state, or read what the store already held)
\* leaves every field of the group as the first left it and sets
\* should_update to false.
C21_Step ==
    (recomputed /\ recomputed' /\ sub_values' = sub_values) =>
       /\ current_temperature' = current_temperature
       /\ target_temperature' = target_temperature
       /\ hvac_mode' = hvac_mode
       /\ preset_mode' = preset_mode
       /\ hvac_action' = hvac_action
       /\ available' = available
       /\ ~should_update'

C21_RecomputeIdempotent == [][C21_Step]_vars

C21_Witness ==
    LET n == Cardinality(WithCurrentTemp) IN
    /\ recomputed
    /\ ~should_update
    /\ \A c \in Children : ~ReadPresent(c)
    /\ \E c \in Children : ReadAbsent(c)
    /\ \A c \in Children : sub_values[c] # EmptySnapshot
    /\ n > 0
    /\ current_temperature # NoTemp
    /\ current_temperature[1] * n # SumCurrentTemp(WithCurrentTemp) * Scale
    /\ target_temperature # NoTemp
    /\ preset_mode # None

\* C22: a composite current temperature that has a value is never set back
\* to none: a recompute over a store in which no child has a current
\* temperature keeps the stored value and sets should_update only if a
\* discrete field changed, whereas a recompute over a store in which no child
\* has a target sets the composite target to none and, if it had a value,
\* sets should_update.
C22_Step ==
    /\ current_temperature # NoTemp => current_temperature' # NoTemp
    /\ (\A c \in Children : sub_values'[c].current_temperature = NoTemp) =>
          /\ current_temperature' = current_temperature
          /\ should_update' => DiscreteFieldChanges
    /\ (\A c \in Children : sub_values'[c].temperature = NoTemp) =>
          /\ target_temperature' = NoTemp
          /\ target_temperature # NoTemp => should_update'

C22_CurrentTemperatureRetained == [][C22_Step]_vars

C22_Witness ==
    /\ \A c \in Children :
          /\ sub_values[c].state = "heat"
          /\ sub_values[c].current_temperature = NoTemp
          /\ sub_values[c].temperature = NoTemp
    /\ current_temperature # NoTemp
    /\ target_temperature = NoTemp
    /\ hvac_mode = "heat"
    /\ should_update
    /\ ha_state_written

====
